---- MODULE Spec2Model ----
(***************************************************************************)
(* Nelson-event backend: the Location / User / Venue stores, the REST      *)
(* handlers over them, the recursive descendant resolver and the access    *)
(* control chain of the venue router.                                      *)
(*                                                                         *)
(* Ids.  A stored _id (a MongoDB ObjectId) is a number.  An id that        *)
(* arrives in a request (path parameter, body field, x-user-id header) is  *)
(* a well-formed 24-hex string, modelled as a pair <<k, spelling>>: the    *)
(* same ObjectId k can be spelled with lower-case or upper-case hex        *)
(* digits, and Mongoose's cast maps both spellings to ObjectId k.          *)
(* Malformed id strings (CastError, answered by the handlers' catch-all    *)
(* 500 branch) are outside the request alphabet, except for the            *)
(* x-user-id header, whose cast error authenticateUser itself catches,     *)
(* and the path parameter of GET /parent/:parentId, which also takes the   *)
(* words 'root' and 'null'.                                                *)
(*                                                                         *)
(* Scheduling.  In SpecRace and SpecConc requests are interleaved at their *)
(* storage calls.  In every other specification requests are handled one   *)
(* at a time: a handler of the location and user routers is one action, a  *)
(* request on the venue router is one action per middleware step, and a    *)
(* new request is taken only when no venue request is in flight.           *)
(***************************************************************************)
EXTENDS Integers, Sequences, FiniteSets, TLC

\* ---------------------------------------------------------------- bounds
\* Location documents ever created in SpecLoc.
MaxLocs == 3
\* Location documents ever created in Spec.
MaxSites == 1
\* User documents ever created in Spec.
MaxUsers == 2
\* Venue documents ever created in Spec.
MaxVenues == 1
\* Location, User and Venue documents ever created in SpecTree.
MaxNodes == 3
MaxStaff == 1
MaxHalls == 2
\* Location documents ever created in SpecRace.
MaxRaceLocs == 2
\* Requests in flight together in SpecRace.
MaxInFlight == 2
\* Location, User and Venue documents ever created in SpecConc, and the
\* requests that wait while another one runs.
MaxConcLocs == 1
MaxConcUsers == 2
MaxConcVenues == 1
MaxWaiting == 1
\* Location documents ever created in SpecPair.
MaxPair == 2
\* User documents ever created in SpecPair.
MaxMembers == 2

\* ---------------------------------------------------------------- values
\* A stored reference that is null (Location.parent of a root): no ObjectId.
NoId == 0
\* An id-valued body field or header sent as JS null.
Null == <<0, "null">>
\* An id-valued body field or header that was not sent (JS undefined).
Absent == <<0, "undefined">>
\* A string-valued body field that was not sent (JS undefined).
Unset == "undefined"
\* An empty string sent as a field value.
Empty == ""

\* A number-valued body field: a number, or not sent.
Num(n) == <<"number", n>>
NoNum == <<"undefined", 0>>
\* JS truthiness of a number-valued field: undefined and 0 are falsy.
NonZero(v) == v # NoNum /\ v[2] # 0

\* An x-user-id header that is no ObjectId string: the cast throws.
Malformed == <<0, "malformed">>

Spellings == {"lower", "upper"}

\* The well-formed id strings for ids 1..n, in either spelling: sent as the
\* :id of the location router, whose updateLocation compares it as a string.
IdStrings(n) == (1..n) \X Spellings

\* The id strings for ids 1..n in the spelling the API itself returns: sent
\* in JSON bodies, in the x-user-id header and as the other path ids, every
\* use of which is a cast.
BodyIds(n) == (1..n) \X {"lower"}

\* Mongoose's cast of an id string to an ObjectId: the spelling is dropped.
castObjectId(s) == s[1]

\* ObjectId.prototype.toString(): always the lower-case spelling.
toString(k) == <<k, "lower">>

\* JS truthiness of an id-valued field: undefined and null are falsy.
Truthy(v) == v \notin {Absent, Null}
\* JS truthiness of a string-valued field: undefined and "" are falsy.
Given(v) == v \notin {Unset, Empty}

VARIABLES
    locs,       \* Location collection: _id -> [parent, code]
    users,      \* User collection: _id -> [role, email, location]
    venues,     \* Venue collection: _id -> [createdBy, location, capacity]
    nextLoc,    \* next fresh Location _id
    nextUser,   \* next fresh User _id
    nextVenue,  \* next fresh Venue _id
    req,        \* the venue-router request in flight (or the last one)
    res,        \* the last response of a location/user-router handler
    pending     \* the requests in flight that wait at an await

vars == <<locs, users, venues, nextLoc, nextUser, nextVenue, req, res, pending>>
stores == <<locs, users, venues, nextLoc, nextUser, nextVenue>>

\* ------------------------------------------------------- schema setters
\* locationSchema.code: uppercase: true
toUpperCase(c) ==
    CASE c = "rw" -> "RW"
      [] c = "kgl" -> "KGL"
      [] c = "kck" -> "KCK"
      [] OTHER -> c

\* userSchema.email: lowercase: true
toLowerCase(e) == IF e = "A@B.com" THEN "a@b.com" ELSE e

\* userSchema.email: match /^\w+([\.-]?\w+)*@\w+([\.-]?\w+)*(\.\w{2,3})+$/
MatchesEmail(e) == e \in {"a@b.com", "c@d.com"}

\* userSchema.role: enum
Roles == {"Admin", "Organizer", "Attend"}

\* ------------------------------------------------------------- responses
\* The part of a JSON response body the properties read: message, the
\* resolver's list (the handler's allLocationIds), data (the _ids of the
\* documents returned) and the two counts.
NoBody == [message |-> "", allLocationIds |-> <<>>, data |-> {},
           count |-> 0, locationsSearched |-> 0]
Message(m) == [NoBody EXCEPT !.message = m]

\* The last response of a location/user-router handler: the handler, the
\* ObjectId its path parameter casts to (NoId without one), status, body.
\* status 0: no response has been sent.
NoResponse == [op |-> "none", id |-> NoId, status |-> 0, body |-> NoBody]

Response(op, id, status, body) ==
    [op |-> op, id |-> id, status |-> status, body |-> body]

NoUser == [id |-> NoId, role |-> "none"]

\* A request on the venue router: its route, x-user-id header and path id
\* as sent; step, the place in the route's chain of the handler to run next
\* (0: none); user, what authenticateUser attached; the status and body of
\* the response; sent, the responses sent; log, the handlers run so far;
\* lookups, the Venue.findById calls made by checkVenueOwnership.
NoRequest == [route |-> "none", header |-> Absent, id |-> Absent, step |-> 0,
              user |-> NoUser, status |-> 0, sent |-> 0, log |-> <<>>,
              lookups |-> 0, body |-> NoBody]

\* No venue-router request is between two of its middleware steps.
Idle == req.step = 0

\* ------------------------------------------------------ Location queries
\* Location.find({ parent: id }): the _ids of the direct children.
ChildrenOf(store, id) == {c \in DOMAIN store : store[c].parent = id}

\* A find() result as an array, in natural (insertion = _id) order.
RECURSIVE InOrder(_)
InOrder(S) ==
    IF S = {} THEN <<>>
    ELSE LET m == CHOOSE x \in S : \A y \in S : x <= y
         IN <<m>> \o InOrder(S \ {m})

\* A count that also takes in the users and venues located at id.
countReferences(store, id) ==
    Cardinality(ChildrenOf(store, id))
      + Cardinality({u \in DOMAIN users : users[u].location = id})
      + Cardinality({v \in DOMAIN venues : venues[v].location = id})

\* Location.countDocuments({ parent: id })
countChildren(store, id) == Cardinality(ChildrenOf(store, id))

\* Another document already holds this (upper-cased) code: the unique index
\* rejects the write with E11000.
DuplicateCode(store, code, self) ==
    \E l \in DOMAIN store : l # self /\ store[l].code = toUpperCase(code)

\* ------------------------------------------------- location controller
\* A parent check that finds every parent.
ParentAlwaysFound(store, parent) == FALSE

\* createLocation's parent check: a parent was sent and no location has it.
ParentMissing(store, parent) ==
    Truthy(parent) /\ castObjectId(parent) \notin DOMAIN store

CreateLocationReq(sc, name, code, parent) ==
    /\ Idle
    /\ \/ /\ ~Given(name) \/ ~Given(code)
          /\ res' = Response("createLocation", NoId, 400,
                             Message("Name and code are required"))
          /\ UNCHANGED stores
          /\ req' = NoRequest /\ UNCHANGED pending
       \/ /\ Given(name) /\ Given(code)
          /\ ParentMissing(locs, parent)
          /\ res' = Response("createLocation", NoId, 404,
                             Message("Parent location not found"))
          /\ UNCHANGED stores
          /\ req' = NoRequest /\ UNCHANGED pending
       \/ /\ Given(name) /\ Given(code)
          /\ ~ParentMissing(locs, parent)
          /\ DuplicateCode(locs, code, NoId)
          /\ res' = Response("createLocation", NoId, 400,
                             Message("Location code already exists"))
          /\ UNCHANGED stores
          /\ req' = NoRequest /\ UNCHANGED pending
       \/ /\ Given(name) /\ Given(code)
          /\ ~ParentMissing(locs, parent)
          /\ ~DuplicateCode(locs, code, NoId)
          /\ nextLoc <= sc.locs
          /\ locs' = locs @@ (nextLoc :>
                 [parent |-> IF Truthy(parent) THEN castObjectId(parent) ELSE NoId,
                  code |-> toUpperCase(code)])
          /\ nextLoc' = nextLoc + 1
          /\ res' = Response("createLocation", nextLoc, 201, NoBody)
          /\ UNCHANGED <<users, venues, nextUser, nextVenue>>
          /\ req' = NoRequest /\ UNCHANGED pending

CreateLocation(sc) ==
    \E name \in {Unset, "Rwanda"}, code \in {Unset} \cup sc.codes,
       parent \in {Absent, Null} \cup BodyIds(sc.locs) :
        CreateLocationReq(sc, name, code, parent)

\* The self-parent test of updateLocation: strict equality of the two
\* strings as sent (parent === req.params.id).
IsOwnParent(parent, id) == parent = id

\* updateLocation without its Location.findById(parent): only the self-parent
\* test is made.
ParentUnchecked(store, parent, id) ==
    Truthy(parent) => ~IsOwnParent(parent, id)

\* updateLocation's checks on a parent that was sent have passed.
ParentAccepted(store, parent, id) ==
    Truthy(parent) => ~IsOwnParent(parent, id) /\ ~ParentMissing(store, parent)

\* The update document { name, code, parent } applied to a location:
\* undefined fields are dropped, null clears the parent.
UpdatedLocation(doc, code, parent) ==
    [parent |-> IF parent = Absent THEN doc.parent
                ELSE IF parent = Null THEN NoId
                ELSE castObjectId(parent),
     code |-> IF code = Unset THEN doc.code ELSE toUpperCase(code)]

UpdateLocationReq(sc, id, name, code, parent) ==
    LET target == castObjectId(id) IN
    /\ Idle
    /\ \/ /\ Truthy(parent) /\ IsOwnParent(parent, id)
          /\ res' = Response("updateLocation", target, 400,
                             Message("Location cannot be its own parent"))
          /\ UNCHANGED stores
          /\ req' = NoRequest /\ UNCHANGED pending
       \/ /\ Truthy(parent) /\ ~IsOwnParent(parent, id)
          /\ ParentMissing(locs, parent)
          /\ res' = Response("updateLocation", target, 404,
                             Message("Parent location not found"))
          /\ UNCHANGED stores
          /\ req' = NoRequest /\ UNCHANGED pending
       \/ /\ ParentAccepted(locs, parent, id)
          \* runValidators: required fails on an empty name or code, and the
          \* catch block answers any error but E11000 with 500.
          /\ name = Empty \/ code = Empty
          /\ res' = Response("updateLocation", target, 500, Message("ValidationError"))
          /\ UNCHANGED stores
          /\ req' = NoRequest /\ UNCHANGED pending
       \/ /\ ParentAccepted(locs, parent, id)
          /\ name # Empty /\ code # Empty
          /\ target \notin DOMAIN locs
          /\ res' = Response("updateLocation", target, 404,
                             Message("Location not found"))
          /\ UNCHANGED stores
          /\ req' = NoRequest /\ UNCHANGED pending
       \/ /\ ParentAccepted(locs, parent, id)
          /\ name # Empty /\ code # Empty
          /\ target \in DOMAIN locs
          /\ code # Unset /\ DuplicateCode(locs, code, target)
          /\ res' = Response("updateLocation", target, 400,
                             Message("Location code already exists"))
          /\ UNCHANGED stores
          /\ req' = NoRequest /\ UNCHANGED pending
       \/ /\ ParentAccepted(locs, parent, id)
          /\ name # Empty /\ code # Empty
          /\ target \in DOMAIN locs
          /\ code # Unset => ~DuplicateCode(locs, code, target)
          /\ locs' = [locs EXCEPT ![target] = UpdatedLocation(@, code, parent)]
          /\ res' = Response("updateLocation", target, 200, NoBody)
          /\ UNCHANGED <<users, venues, nextLoc, nextUser, nextVenue>>
          /\ req' = NoRequest /\ UNCHANGED pending

UpdateLocation(sc) ==
    \E id \in IdStrings(sc.locs), name \in {Empty, "Rwanda"},
       code \in {Unset, Empty} \cup sc.codes,
       parent \in {Absent, Null} \cup BodyIds(sc.locs) :
        UpdateLocationReq(sc, id, name, code, parent)

\* A guard that lets every delete through.
NeverHasChildren(store, id) == FALSE

\* deleteLocation's guard: childrenCount > 0.
HasChildren(store, id) == countChildren(store, id) > 0

DeleteLocationReq(sc, id) ==
    LET target == castObjectId(id) IN
    /\ Idle
    /\ \/ /\ HasChildren(locs, target)
          /\ res' = Response("deleteLocation", target, 400,
                             Message("Cannot delete location with child locations"))
          /\ UNCHANGED stores
          /\ req' = NoRequest /\ UNCHANGED pending
       \/ /\ ~HasChildren(locs, target)
          /\ target \notin DOMAIN locs
          /\ res' = Response("deleteLocation", target, 404,
                             Message("Location not found"))
          /\ UNCHANGED stores
          /\ req' = NoRequest /\ UNCHANGED pending
       \/ /\ ~HasChildren(locs, target)
          /\ target \in DOMAIN locs
          /\ locs' = [l \in DOMAIN locs \ {target} |-> locs[l]]
          /\ res' = Response("deleteLocation", target, 200,
                             Message("Location deleted successfully"))
          /\ UNCHANGED <<users, venues, nextLoc, nextUser, nextVenue>>
          /\ req' = NoRequest /\ UNCHANGED pending

DeleteLocation(sc) ==
    \E id \in IdStrings(sc.locs) : DeleteLocationReq(sc, id)

\* GET /parent/:parentId.  The path parameter is a string: one of the two
\* words that stand for the top level, an ObjectId string, or any other
\* string (which Location.find cannot cast: CastError, the catch block
\* answers 500).
RootWords == {<<0, "root">>, <<0, "null">>}
ParentIds(sc) == RootWords \cup {Malformed} \cup IdStrings(sc.locs)

\* A test that knows only the word 'root'.
OnlyRoot(parentId) == parentId = <<0, "root">>

\* parentId === 'root' || parentId === 'null'
IsRoot(parentId) == parentId \in RootWords

\* Location.find({ parent: parent }), parent null or an ObjectId.
FindByParent(store, parent) == {l \in DOMAIN store : store[l].parent = parent}

GetLocationsByParentReq(sc, parentId) ==
    LET locations == IF IsRoot(parentId) THEN FindByParent(locs, NoId)
                     ELSE FindByParent(locs, castObjectId(parentId))
    IN
    /\ Idle
    /\ \/ /\ ~IsRoot(parentId) /\ castObjectId(parentId) = NoId
          /\ res' = Response("getLocationsByParent", NoId, 500,
                             Message("CastError"))
       \/ /\ IsRoot(parentId) \/ castObjectId(parentId) # NoId
          /\ res' = Response("getLocationsByParent", castObjectId(parentId), 200,
                 [NoBody EXCEPT !.data = locations,
                                !.count = Cardinality(locations)])
    /\ req' = NoRequest /\ UNCHANGED pending
    /\ UNCHANGED stores

GetLocationsByParent(sc) ==
    \E parentId \in ParentIds(sc) : GetLocationsByParentReq(sc, parentId)

\* ------------------------------ location controller, call by call
\* createLocation and deleteLocation make two storage calls each, with an
\* await before each: other requests run between the two.  A request in
\* flight: the handler, what was sent, the storage call it awaits, and seen,
\* what its first call returned (the _id of parentLocation, NoId for none;
\* childrenCount).
Call(op, id, code, parent, awaits) ==
    [op |-> op, id |-> id, code |-> code, parent |-> parent, awaits |-> awaits,
     seen |-> 0]

\* Location.findById(id): the _id of the document found, NoId for null.
findById(store, id) ==
    IF castObjectId(id) \in DOMAIN store THEN castObjectId(id) ELSE NoId

\* The requests in flight without the i-th.
Remove(seq, i) == SubSeq(seq, 1, i - 1) \o SubSeq(seq, i + 1, Len(seq))

\* A createLocation request arrives with name and code: it awaits
\* Location.findById(parent) if a parent was sent, else Location.create.
BeginCreateLocation(sc) ==
    /\ Len(pending) < sc.inflight
    /\ \E code \in sc.codes, parent \in {Absent} \cup BodyIds(sc.locs) :
         pending' = Append(pending, Call("createLocation", Absent, code, parent,
                        IF Truthy(parent) THEN "findById" ELSE "create"))
    /\ UNCHANGED <<stores, req, res>>

\* Location.findById(parent) comes back.
FindParent ==
    \E i \in DOMAIN pending :
      /\ pending[i].op = "createLocation" /\ pending[i].awaits = "findById"
      /\ \/ /\ ParentMissing(locs, pending[i].parent)
            /\ res' = Response("createLocation", NoId, 404,
                               Message("Parent location not found"))
            /\ pending' = Remove(pending, i)
         \/ /\ ~ParentMissing(locs, pending[i].parent)
            /\ pending' = [pending EXCEPT ![i].awaits = "create",
                                          ![i].seen = findById(locs, pending[i].parent)]
            /\ UNCHANGED res
      /\ UNCHANGED <<stores, req>>

\* Location.create({ name, code, parent }) comes back.
CreateDocument(sc) ==
    \E i \in DOMAIN pending :
      LET call == pending[i] IN
      /\ call.op = "createLocation" /\ call.awaits = "create"
      /\ \/ /\ DuplicateCode(locs, call.code, NoId)
            /\ res' = Response("createLocation", NoId, 400,
                               Message("Location code already exists"))
            /\ UNCHANGED stores
         \/ /\ ~DuplicateCode(locs, call.code, NoId)
            /\ nextLoc <= sc.locs
            /\ locs' = locs @@ (nextLoc :>
                   [parent |-> IF Truthy(call.parent)
                               THEN castObjectId(call.parent) ELSE NoId,
                    code |-> toUpperCase(call.code)])
            /\ nextLoc' = nextLoc + 1
            /\ res' = Response("createLocation", nextLoc, 201, NoBody)
            /\ UNCHANGED <<users, venues, nextUser, nextVenue>>
      /\ pending' = Remove(pending, i)
      /\ UNCHANGED req

\* A deleteLocation request arrives: it awaits Location.countDocuments.
BeginDeleteLocation(sc) ==
    /\ Len(pending) < sc.inflight
    /\ \E id \in BodyIds(sc.locs) :
         pending' = Append(pending, Call("deleteLocation", id, Unset, Absent,
                                         "countDocuments"))
    /\ UNCHANGED <<stores, req, res>>

\* Location.countDocuments({ parent: req.params.id }) comes back.
CountDocuments ==
    \E i \in DOMAIN pending :
      LET target == castObjectId(pending[i].id) IN
      /\ pending[i].op = "deleteLocation" /\ pending[i].awaits = "countDocuments"
      /\ \/ /\ HasChildren(locs, target)
            /\ res' = Response("deleteLocation", target, 400,
                               Message("Cannot delete location with child locations"))
            /\ pending' = Remove(pending, i)
         \/ /\ ~HasChildren(locs, target)
            /\ pending' = [pending EXCEPT ![i].awaits = "findByIdAndDelete",
                                          ![i].seen = countChildren(locs, target)]
            /\ UNCHANGED res
      /\ UNCHANGED <<stores, req>>

\* Location.findByIdAndDelete(req.params.id) comes back.
FindByIdAndDelete ==
    \E i \in DOMAIN pending :
      LET target == castObjectId(pending[i].id) IN
      /\ pending[i].op = "deleteLocation"
      /\ pending[i].awaits = "findByIdAndDelete"
      /\ \/ /\ target \notin DOMAIN locs
            /\ res' = Response("deleteLocation", target, 404,
                               Message("Location not found"))
            /\ UNCHANGED stores
         \/ /\ target \in DOMAIN locs
            /\ locs' = [l \in DOMAIN locs \ {target} |-> locs[l]]
            /\ res' = Response("deleteLocation", target, 200,
                               Message("Location deleted successfully"))
            /\ UNCHANGED <<users, venues, nextLoc, nextUser, nextVenue>>
      /\ pending' = Remove(pending, i)
      /\ UNCHANGED req

\* ------------------------------------------------- descendant resolver
\* What a call of the resolver does: it returns a list, or it never returns.
\* queries: the ids it has passed to Location.find({ parent: id }), in the
\* order of the calls.
Returned(ids, queries) == [returns |-> TRUE, ids |-> ids, queries |-> queries]

\* A call that gives up on a revisit and returns an empty list.
GivesUp == [returns |-> TRUE, ids |-> <<>>, queries |-> <<>>]

\* The recursion never ends: the call does not return.
NeverReturns == [returns |-> FALSE, ids |-> <<>>, queries |-> <<>>]

\* A call at depth d (the root call is depth 0) was reached through d stored
\* locations, each the parent of the next; deeper than the number of stored
\* locations, one of them repeats, and the recursion revisits it for ever.
Revisits(store, depth) == depth > Cardinality(DOMAIN store)

RECURSIVE getAllChildLocationIds(_, _, _)
RECURSIVE ForEachChild(_, _, _, _, _, _)
RECURSIVE getAllChildLocationIdsUser(_, _, _)
RECURSIVE ForEachChildUser(_, _, _, _, _, _)

\* A resolver that stops at the direct children (no recursive call).
DirectChildrenOnly(store, locationId, depth) ==
    Returned(<<locationId>> \o InOrder(ChildrenOf(store, locationId)),
             <<locationId>>)

\* A resolver that gets the same list with a single storage query.
OneQueryForAll(store, locationId, depth) ==
    LET all == getAllChildLocationIdsUser(store, locationId, depth)
    IN [all EXCEPT !.queries = IF all.returns THEN <<locationId>> ELSE <<>>]

\* A resolver that makes the same queries and lists the same ids, with the
\* root after its descendants.
RootLast(store, locationId, depth) ==
    LET all == getAllChildLocationIds(store, locationId, depth)
    IN [all EXCEPT !.ids = IF Len(@) = 0 THEN @ ELSE Tail(@) \o <<Head(@)>>]

\* getAllChildLocationIds of the venue controller.  The root id is cast
\* where the list is used ($in), so the list holds ObjectIds throughout.
ForEachChild(store, children, i, allLocationIds, queries, depth) ==
    IF i > Len(children) THEN Returned(allLocationIds, queries)
    ELSE LET childIds == getAllChildLocationIds(store, children[i], depth + 1)
         IN IF ~childIds.returns THEN NeverReturns
            ELSE ForEachChild(store, children, i + 1,
                              allLocationIds \o childIds.ids,
                              queries \o childIds.queries, depth)

getAllChildLocationIds(store, locationId, depth) ==
    IF Revisits(store, depth) THEN NeverReturns
    ELSE LET children == InOrder(ChildrenOf(store, locationId))
         IN IF Len(children) = 0
            THEN Returned(<<locationId>>, <<locationId>>)
            ELSE ForEachChild(store, children, 1, <<locationId>>,
                              <<locationId>>, depth)

\* getAllChildLocationIds of the user controller (its own copy).
ForEachChildUser(store, children, i, allLocationIds, queries, depth) ==
    IF i > Len(children) THEN Returned(allLocationIds, queries)
    ELSE LET childIds == getAllChildLocationIdsUser(store, children[i], depth + 1)
         IN IF ~childIds.returns THEN NeverReturns
            ELSE ForEachChildUser(store, children, i + 1,
                                  allLocationIds \o childIds.ids,
                                  queries \o childIds.queries, depth)

getAllChildLocationIdsUser(store, locationId, depth) ==
    IF Revisits(store, depth) THEN NeverReturns
    ELSE LET children == InOrder(ChildrenOf(store, locationId))
         IN IF Len(children) = 0
            THEN Returned(<<locationId>>, <<locationId>>)
            ELSE ForEachChildUser(store, children, 1, <<locationId>>,
                                  <<locationId>>, depth)

\* The elements of an array.
Elements(seq) == {seq[i] : i \in 1..Len(seq)}

\* ----------------------------------------------------- user controller
\* A query that ignores the $in filter and finds every user.
EveryUser(ids) == DOMAIN users

\* User.find({ location: { $in: ids } })
UsersIn(ids) == {u \in DOMAIN users : users[u].location \in Elements(ids)}

GetUsersByLocationReq(sc, locationId) ==
    LET root == castObjectId(locationId)
        allLocationIds == getAllChildLocationIdsUser(locs, root, 0)
    IN
    /\ Idle
    /\ \/ /\ ~allLocationIds.returns
          \* the handler never reaches res.status(...): no response
          /\ res' = Response("getUsersByLocation", root, 0, NoBody)
       \/ /\ allLocationIds.returns
          /\ res' = Response("getUsersByLocation", root, 200,
                 [message |-> "",
                  allLocationIds |-> allLocationIds.ids,
                  data |-> UsersIn(allLocationIds.ids),
                  count |-> Cardinality(UsersIn(allLocationIds.ids)),
                  locationsSearched |-> Len(allLocationIds.ids)])
    /\ req' = NoRequest /\ UNCHANGED pending
    /\ UNCHANGED stores

GetUsersByLocation(sc) ==
    \E locationId \in BodyIds(sc.locs) : GetUsersByLocationReq(sc, locationId)

\* A User collection without the unique index on email.
NoUniqueIndex(store, email, self) == FALSE

\* Another user already holds this (lower-cased) e-mail: E11000.
DuplicateEmail(store, email, self) ==
    \E u \in DOMAIN store : u # self /\ store[u].email = toLowerCase(email)

\* The request bodies sent to createUser: the well-formed ones, and one body
\* for each way of being ill-formed.
ValidUser(sc) ==
    [name : {"Ann"}, phone : {"0788"}, email : sc.emails, role : sc.roles,
     location : BodyIds(sc.locs)]
CreateUserBodies(sc) ==
    ValidUser(sc) \cup
    {[name |-> Unset, phone |-> "0788", email |-> "c@d.com", role |-> "Admin",
      location |-> <<1, "lower">>],
     [name |-> "Ann", phone |-> "0788", email |-> "c@d.com", role |-> "Admin",
      location |-> Absent],
     [name |-> "Ann", phone |-> "0788", email |-> "c@d.com", role |-> "Guest",
      location |-> <<1, "lower">>],
     [name |-> "Ann", phone |-> "0788", email |-> "not-an-email",
      role |-> "Admin", location |-> <<1, "lower">>]}

CreateUserReq(sc, body) ==
    /\ Idle
    /\ \/ /\ \/ ~Given(body.name) \/ ~Given(body.phone) \/ ~Given(body.email)
             \/ ~Given(body.role) \/ ~Truthy(body.location)
          /\ res' = Response("createUser", NoId, 400, Message(
                 "All fields are required: name, phone, email, role, and location"))
          /\ UNCHANGED stores
       \/ /\ Given(body.name) /\ Given(body.phone) /\ Given(body.email)
          /\ Given(body.role) /\ Truthy(body.location)
          /\ body.role \notin Roles \/ ~MatchesEmail(toLowerCase(body.email))
          /\ res' = Response("createUser", NoId, 400, Message("ValidationError"))
          /\ UNCHANGED stores
       \/ /\ Given(body.name) /\ Given(body.phone) /\ Given(body.email)
          /\ Given(body.role) /\ Truthy(body.location)
          /\ body.role \in Roles /\ MatchesEmail(toLowerCase(body.email))
          /\ DuplicateEmail(users, body.email, NoId)
          /\ res' = Response("createUser", NoId, 400, Message("Email already exists"))
          /\ UNCHANGED stores
       \/ /\ Given(body.name) /\ Given(body.phone) /\ Given(body.email)
          /\ Given(body.role) /\ Truthy(body.location)
          /\ body.role \in Roles /\ MatchesEmail(toLowerCase(body.email))
          /\ ~DuplicateEmail(users, body.email, NoId)
          /\ nextUser <= sc.users
          /\ users' = users @@ (nextUser :>
                 [role |-> body.role, email |-> toLowerCase(body.email),
                  location |-> castObjectId(body.location)])
          /\ nextUser' = nextUser + 1
          /\ res' = Response("createUser", nextUser, 201, NoBody)
          /\ UNCHANGED <<locs, venues, nextLoc, nextVenue>>
    /\ req' = NoRequest /\ UNCHANGED pending

CreateUser(sc) == \E body \in CreateUserBodies(sc) : CreateUserReq(sc, body)

\* The update documents sent to updateUser: any of email, role and location.
UpdateUserBodies(sc) ==
    [email : {Unset, "c@d.com", "A@B.com"}, role : {Unset, "Guest"} \cup sc.roles,
     location : {Absent} \cup BodyIds(sc.locs)]

\* The update document applied to a user: undefined fields are dropped.
UpdatedUser(doc, body) ==
    [role |-> IF body.role = Unset THEN doc.role ELSE body.role,
     email |-> IF body.email = Unset THEN doc.email ELSE toLowerCase(body.email),
     location |-> IF body.location = Absent THEN doc.location
                  ELSE castObjectId(body.location)]

UpdateUserReq(sc, id, body) ==
    LET target == castObjectId(id)
        invalid == \/ body.role # Unset /\ body.role \notin Roles
                   \/ body.email # Unset /\ ~MatchesEmail(toLowerCase(body.email))
    IN
    /\ Idle
    /\ \/ /\ invalid
          /\ res' = Response("updateUser", target, 400, Message("ValidationError"))
          /\ UNCHANGED stores
       \/ /\ ~invalid
          /\ target \notin DOMAIN users
          /\ res' = Response("updateUser", target, 404, Message("User not found"))
          /\ UNCHANGED stores
       \/ /\ ~invalid
          /\ target \in DOMAIN users
          /\ body.email # Unset /\ DuplicateEmail(users, body.email, target)
          /\ res' = Response("updateUser", target, 400, Message("Email already exists"))
          /\ UNCHANGED stores
       \/ /\ ~invalid
          /\ target \in DOMAIN users
          /\ body.email # Unset => ~DuplicateEmail(users, body.email, target)
          /\ users' = [users EXCEPT ![target] = UpdatedUser(@, body)]
          /\ res' = Response("updateUser", target, 200, NoBody)
          /\ UNCHANGED <<locs, venues, nextLoc, nextUser, nextVenue>>
    /\ req' = NoRequest /\ UNCHANGED pending

UpdateUser(sc) ==
    \E id \in BodyIds(sc.users), body \in UpdateUserBodies(sc) :
        UpdateUserReq(sc, id, body)

DeleteUserReq(sc, id) ==
    LET target == castObjectId(id) IN
    /\ Idle
    /\ \/ /\ target \notin DOMAIN users
          /\ res' = Response("deleteUser", target, 404, Message("User not found"))
          /\ UNCHANGED stores
       \/ /\ target \in DOMAIN users
          /\ users' = [u \in DOMAIN users \ {target} |-> users[u]]
          /\ res' = Response("deleteUser", target, 200,
                             Message("User deleted successfully"))
          /\ UNCHANGED <<locs, venues, nextLoc, nextUser, nextVenue>>
    /\ req' = NoRequest /\ UNCHANGED pending

DeleteUser(sc) == \E id \in BodyIds(sc.users) : DeleteUserReq(sc, id)

\* ---------------------------------------------------------- venue router
\* router.<method>(path, ...handlers): the handlers of a route, in the
\* order they are registered.
Chain(route) ==
    CASE route = "POST /" ->
            <<"authenticateUser", "requireRole", "createVenue">>
      [] route = "GET /" ->
            <<"authenticateUser", "getAllVenues">>
      [] route = "GET /organizer/:organizerId" ->
            <<"authenticateUser", "getVenuesByOrganizer">>
      [] route = "GET /location/:locationId" ->
            <<"authenticateUser", "getVenuesByLocation">>
      [] route = "GET /:id" ->
            <<"authenticateUser", "getVenueById">>
      [] route = "PUT /:id" ->
            <<"authenticateUser", "checkVenueOwnership", "updateVenue">>
      [] route = "DELETE /:id" ->
            <<"authenticateUser", "checkVenueOwnership", "deleteVenue">>
      [] OTHER -> <<>>

VenueRoutes == {"POST /", "GET /", "GET /organizer/:organizerId",
                "GET /location/:locationId", "GET /:id", "PUT /:id",
                "DELETE /:id"}

\* The ids a route's path parameter is sent with.
PathIds(sc, route) ==
    CASE route \in {"POST /", "GET /"} -> {Absent}
      [] route = "GET /organizer/:organizerId" -> BodyIds(sc.users)
      [] route = "GET /location/:locationId" -> BodyIds(sc.locs)
      [] OTHER -> BodyIds(sc.venues)

\* Express takes a request on the venue router and starts its chain.
ReceiveRequest(sc) ==
    /\ Idle
    /\ \E route \in sc.routes : \E id \in PathIds(sc, route) :
         \E header \in {Absent, Malformed} \cup BodyIds(sc.users) :
           req' = [NoRequest EXCEPT !.route = route, !.header = header,
                                    !.id = id, !.step = 1]
    /\ res' = NoResponse
    /\ UNCHANGED <<stores, pending>>

\* The handler Express runs next for the request in flight.
At(handler) ==
    /\ req.step \in 1..Len(Chain(req.route))
    /\ Chain(req.route)[req.step] = handler

\* next(): the handler is done and Express runs the following one.
CallNext(r, handler) ==
    [r EXCEPT !.step = @ + 1, !.log = Append(@, handler)]

\* A response is sent without the return: the chain goes on.
SendAndGoOn(r, handler, status, body) ==
    [r EXCEPT !.step = @ + 1, !.status = status, !.sent = @ + 1,
              !.log = Append(@, handler), !.body = body]

\* A response is sent and the handler returns without calling next().
Send(r, handler, status, body) ==
    [r EXCEPT !.step = 0, !.status = status, !.sent = @ + 1,
              !.log = Append(@, handler), !.body = body]

\* The handler awaits for ever: no response, no next().
Hang(r, handler) ==
    [r EXCEPT !.step = 0, !.log = Append(@, handler)]

\* The handler of the request in flight awaits its storage call, and
\* Express turns to other requests in the meantime.
Await(sc) ==
    /\ req.step > 0
    /\ Len(pending) < sc.inflight
    /\ pending' = Append(pending, req)
    /\ req' = NoRequest
    /\ UNCHANGED <<stores, res>>

\* The storage call of a waiting request comes back: its handler goes on.
Resume ==
    /\ Idle
    /\ \E i \in DOMAIN pending :
         /\ req' = pending[i]
         /\ pending' = Remove(pending, i)
    /\ UNCHANGED <<stores, res>>

\* ------------------------------------------------------ auth middleware
\* req.user: the User document authenticateUser attached.
Caller(id) == [id |-> id, role |-> users[id].role]

AuthenticateUser ==
    LET userId == req.header IN
    /\ At("authenticateUser")
    /\  \/ /\ userId = Absent
           /\ req' = Send(req, "authenticateUser", 401, Message(
                  "Authentication required. Please provide x-user-id header"))
        \/ /\ userId = Malformed
           /\ req' = Send(req, "authenticateUser", 401,
                          Message("Authentication failed"))
        \/ /\ userId \notin {Absent, Malformed}
           /\ castObjectId(userId) \notin DOMAIN users
           /\ req' = Send(req, "authenticateUser", 401, Message("Invalid user ID"))
        \/ /\ userId \notin {Absent, Malformed}
           /\ castObjectId(userId) \in DOMAIN users
           /\ req' = CallNext([req EXCEPT !.user = Caller(castObjectId(userId))],
                              "authenticateUser")
    /\ UNCHANGED <<stores, res, pending>>

\* A role test that lets every role through.
AnyRoleAllowed(roles, user) == TRUE

\* requireRole's test: roles.includes(req.user.role)
RoleAllowed(roles, user) == user.role \in roles

\* requireRole('Admin', 'Organizer'), as registered on POST /
RequireRole ==
    /\ At("requireRole")
    /\ \/ /\ req.user = NoUser
          /\ req' = Send(req, "requireRole", 401, Message("Authentication required"))
       \/ /\ req.user # NoUser
          /\ ~RoleAllowed({"Admin", "Organizer"}, req.user)
          /\ req' = Send(req, "requireRole", 403,
                         Message("Access denied. Required role(s): Admin, Organizer"))
       \/ /\ req.user # NoUser
          /\ RoleAllowed({"Admin", "Organizer"}, req.user)
          /\ req' = CallNext(req, "requireRole")
    /\ UNCHANGED <<stores, res, pending>>

\* No shortcut for Admins: every caller's venue is looked up.
NobodyIsAdmin(user) == FALSE

\* checkVenueOwnership's shortcut: req.user.role === 'Admin'
IsAdmin(user) == user.role = "Admin"

\* An ownership test that compares nothing.
EveryoneIsOwner(venue, user) == TRUE

\* checkVenueOwnership's test on the venue it found:
\* venue.createdBy.toString() === req.user._id.toString()
IsOwner(venue, user) == toString(venue.createdBy) = toString(user.id)

\* Venue.findById(venueId): one more venue lookup by this request.
Lookup(r) == [r EXCEPT !.lookups = @ + 1]

CheckVenueOwnership ==
    /\ At("checkVenueOwnership")
    /\ \/ /\ req.user = NoUser
          /\ req' = Send(req, "checkVenueOwnership", 401,
                         Message("Authentication required"))
       \/ /\ req.user # NoUser /\ IsAdmin(req.user)
          /\ req' = CallNext(req, "checkVenueOwnership")
       \/ /\ req.user # NoUser /\ ~IsAdmin(req.user)
          /\ ~Truthy(req.id)
          /\ req' = Send(req, "checkVenueOwnership", 400,
                         Message("Venue ID is required"))
       \/ /\ req.user # NoUser /\ ~IsAdmin(req.user)
          /\ Truthy(req.id)
          /\ castObjectId(req.id) \notin DOMAIN venues
          /\ req' = Send(Lookup(req), "checkVenueOwnership", 404,
                         Message("Venue not found"))
       \/ /\ req.user # NoUser /\ ~IsAdmin(req.user)
          /\ Truthy(req.id)
          /\ castObjectId(req.id) \in DOMAIN venues
          /\ ~IsOwner(venues[castObjectId(req.id)], req.user)
          /\ req' = Send(Lookup(req), "checkVenueOwnership", 403, Message(
                 "Access denied. You can only modify venues you created"))
       \/ /\ req.user # NoUser /\ ~IsAdmin(req.user)
          /\ Truthy(req.id)
          /\ castObjectId(req.id) \in DOMAIN venues
          /\ IsOwner(venues[castObjectId(req.id)], req.user)
          /\ req' = CallNext(Lookup(req), "checkVenueOwnership")
    /\ UNCHANGED <<stores, res, pending>>

\* ---------------------------------------------------- venue controller
\* venueSchema.capacity: min: [1, 'Capacity must be at least 1']
MinCapacity == 1

\* A capacity validator that accepts every number.
NoMinimum(capacity) == FALSE

\* The min validator of venueSchema.capacity fails.
BelowMinimum(capacity) == capacity < MinCapacity

\* A lookup that finds a location under every id.
EveryLocationExists(store, location) == TRUE

\* const locationExists = await Location.findById(location)
locationExists(store, location) == location \in DOMAIN store

\* The request bodies sent to createVenue: the well-formed ones (with or
\* without a createdBy of the sender's choosing), and ill-formed ones.
ValidVenue(sc) ==
    [placeName : {"Hall"}, capacity : {Num(n) : n \in sc.capacities},
     location : BodyIds(sc.locs), createdBy : {Absent} \cup BodyIds(sc.users)]
CreateVenueBodies(sc) ==
    ValidVenue(sc) \cup
    [placeName : {Unset, "Hall"}, capacity : {NoNum, Num(0), Num(-1)},
     location : {Absent, <<1, "lower">>}, createdBy : {Absent}]

\* The creator taken from the body when the body names one.
CreatorFromBody(r, body) ==
    IF Truthy(body.createdBy) THEN castObjectId(body.createdBy) ELSE r.user.id

\* The creator createVenue stores: req.user._id.
Creator(r, body) == r.user.id

CreateVenueReq(sc, body) ==
    LET location == castObjectId(body.location)
        complete == /\ Given(body.placeName) /\ NonZero(body.capacity)
                    /\ Truthy(body.location)
    IN
    /\ At("createVenue")
    /\  \/ /\ ~complete
           /\ req' = Send(req, "createVenue", 400, Message(
                  "All fields are required: placeName, capacity, and location"))
           /\ UNCHANGED stores
        \/ /\ complete
           /\ ~locationExists(locs, location)
           /\ req' = Send(req, "createVenue", 404, Message("Location not found"))
           /\ UNCHANGED stores
        \/ /\ complete
           /\ locationExists(locs, location)
           /\ BelowMinimum(body.capacity[2])
           /\ req' = Send(req, "createVenue", 400, Message("ValidationError"))
           /\ UNCHANGED stores
        \/ /\ complete
           /\ locationExists(locs, location)
           /\ ~BelowMinimum(body.capacity[2])
           /\ nextVenue <= sc.venues
           /\ venues' = venues @@ (nextVenue :>
                  [createdBy |-> Creator(req, body), location |-> location,
                   capacity |-> body.capacity[2]])
           /\ nextVenue' = nextVenue + 1
           /\ req' = Send(req, "createVenue", 201,
                          [NoBody EXCEPT !.data = {nextVenue}])
           /\ UNCHANGED <<locs, users, nextLoc, nextUser>>
    /\ UNCHANGED <<res, pending>>

CreateVenue(sc) == \E body \in CreateVenueBodies(sc) : CreateVenueReq(sc, body)

\* A query without the Organizer filter.
EveryVenueVisible(user) == DOMAIN venues

\* Venue.find(query) of getAllVenues: an Organizer's own venues, else all.
VisibleTo(user) ==
    IF user.role = "Organizer"
    THEN {v \in DOMAIN venues : venues[v].createdBy = user.id}
    ELSE DOMAIN venues

\* A 200 list response.
Listing(found) ==
    [NoBody EXCEPT !.data = found, !.count = Cardinality(found)]

GetAllVenues ==
    /\ At("getAllVenues")
    /\ req' = Send(req, "getAllVenues", 200, Listing(VisibleTo(req.user)))
    /\ UNCHANGED <<stores, res, pending>>

GetVenueById ==
    /\ At("getVenueById")
    /\ \/ /\ castObjectId(req.id) \notin DOMAIN venues
          /\ req' = Send(req, "getVenueById", 404, Message("Venue not found"))
       \/ /\ castObjectId(req.id) \in DOMAIN venues
          /\ req' = Send(req, "getVenueById", 200, Listing({castObjectId(req.id)}))
    /\ UNCHANGED <<stores, res, pending>>

GetVenuesByOrganizer ==
    LET organizerId == castObjectId(req.id) IN
    /\ At("getVenuesByOrganizer")
    /\ \/ /\ organizerId \notin DOMAIN users
          /\ req' = Send(req, "getVenuesByOrganizer", 404,
                         Message("Organizer not found"))
       \/ /\ organizerId \in DOMAIN users
          /\ users[organizerId].role # "Organizer"
          /\ req' = Send(req, "getVenuesByOrganizer", 400,
                         Message("User is not an organizer"))
       \/ /\ organizerId \in DOMAIN users
          /\ users[organizerId].role = "Organizer"
          /\ req' = Send(req, "getVenuesByOrganizer", 200, Listing(
                 {v \in DOMAIN venues : venues[v].createdBy = organizerId}))
    /\ UNCHANGED <<stores, res, pending>>

\* Venue.find({ location: { $in: ids } })
VenuesIn(ids) == {v \in DOMAIN venues : venues[v].location \in Elements(ids)}

GetVenuesByLocation ==
    LET locationId == castObjectId(req.id)
        allLocationIds == getAllChildLocationIds(locs, locationId, 0)
    IN
    /\ At("getVenuesByLocation")
    /\ \/ /\ locationId \notin DOMAIN locs
          /\ req' = Send(req, "getVenuesByLocation", 404,
                         Message("Location not found"))
       \/ /\ locationId \in DOMAIN locs
          /\ ~allLocationIds.returns
          /\ req' = Hang(req, "getVenuesByLocation")
       \/ /\ locationId \in DOMAIN locs
          /\ allLocationIds.returns
          /\ req' = Send(req, "getVenuesByLocation", 200,
                 [message |-> "",
                  allLocationIds |-> allLocationIds.ids,
                  data |-> VenuesIn(allLocationIds.ids),
                  count |-> Cardinality(VenuesIn(allLocationIds.ids)),
                  locationsSearched |-> Len(allLocationIds.ids)])
    /\ UNCHANGED <<stores, res, pending>>

\* The update documents sent to updateVenue: any of placeName, capacity and
\* location, with or without a createdBy of the sender's choosing.
UpdateVenueBodies(sc) ==
    [placeName : {Unset, Empty, "Hall"}, capacity : {NoNum, Num(0), Num(1), Num(2)},
     location : {Absent} \cup BodyIds(sc.locs),
     createdBy : {Absent} \cup BodyIds(sc.users)]

\* An update document that also carries the createdBy the body names.
UpdatedVenueAndCreator(doc, body) ==
    [createdBy |-> IF Truthy(body.createdBy) THEN castObjectId(body.createdBy)
                   ELSE doc.createdBy,
     location |-> IF body.location = Absent THEN doc.location
                  ELSE castObjectId(body.location),
     capacity |-> IF body.capacity = NoNum THEN doc.capacity
                  ELSE body.capacity[2]]

\* The update document { placeName, capacity, location } applied to a
\* venue: undefined fields are dropped, createdBy is not part of it.
UpdatedVenue(doc, body) ==
    [createdBy |-> doc.createdBy,
     location |-> IF body.location = Absent THEN doc.location
                  ELSE castObjectId(body.location),
     capacity |-> IF body.capacity = NoNum THEN doc.capacity
                  ELSE body.capacity[2]]

UpdateVenueReq(sc, body) ==
    LET target == castObjectId(req.id)
        locationMissing == /\ Truthy(body.location)
                           /\ ~locationExists(locs, castObjectId(body.location))
        \* runValidators: min on capacity, required on placeName
        invalid == \/ body.capacity # NoNum /\ BelowMinimum(body.capacity[2])
                   \/ body.placeName = Empty
    IN
    /\ At("updateVenue")
    /\  \/ /\ locationMissing
           /\ req' = Send(req, "updateVenue", 404, Message("Location not found"))
           /\ UNCHANGED stores
        \/ /\ ~locationMissing /\ invalid
           /\ req' = Send(req, "updateVenue", 400, Message("ValidationError"))
           /\ UNCHANGED stores
        \/ /\ ~locationMissing /\ ~invalid
           /\ target \notin DOMAIN venues
           /\ req' = Send(req, "updateVenue", 404, Message("Venue not found"))
           /\ UNCHANGED stores
        \/ /\ ~locationMissing /\ ~invalid
           /\ target \in DOMAIN venues
           /\ venues' = [venues EXCEPT ![target] = UpdatedVenue(@, body)]
           /\ req' = Send(req, "updateVenue", 200, Listing({target}))
           /\ UNCHANGED <<locs, users, nextLoc, nextUser, nextVenue>>
    /\ UNCHANGED <<res, pending>>

UpdateVenue(sc) == \E body \in UpdateVenueBodies(sc) : UpdateVenueReq(sc, body)

DeleteVenue ==
    LET target == castObjectId(req.id) IN
    /\ At("deleteVenue")
    /\ \/ /\ target \notin DOMAIN venues
          /\ req' = Send(req, "deleteVenue", 404, Message("Venue not found"))
          /\ UNCHANGED stores
       \/ /\ target \in DOMAIN venues
          /\ venues' = [v \in DOMAIN venues \ {target} |-> venues[v]]
          /\ req' = Send(req, "deleteVenue", 200,
                         Message("Venue deleted successfully"))
          /\ UNCHANGED <<locs, users, nextLoc, nextUser, nextVenue>>
    /\ UNCHANGED <<res, pending>>

\* ---------------------------------------------------------------- specs
\* What a specification lets the requests range over: how many documents of
\* each collection are ever created (ids 1..n are the well-formed ids of
\* the collection), the location codes, e-mail addresses, roles and
\* capacities sent, and the routes of the venue router requested.
ScopeLoc == [locs |-> MaxLocs, users |-> 0, venues |-> 0,
             codes |-> {"rw", "RW", "kgl", "kck"}, emails |-> {"a@b.com"},
             roles |-> Roles, capacities |-> {1, 2}, routes |-> VenueRoutes]
ScopeAll == [locs |-> MaxSites, users |-> MaxUsers, venues |-> MaxVenues,
             codes |-> {"rw"}, emails |-> {"a@b.com", "A@B.com", "c@d.com"},
             roles |-> Roles, capacities |-> {1, 2}, routes |-> VenueRoutes]

Init ==
    /\ locs = <<>>
    /\ users = <<>>
    /\ venues = <<>>
    /\ nextLoc = 1
    /\ nextUser = 1
    /\ nextVenue = 1
    /\ req = NoRequest
    /\ res = NoResponse
    /\ pending = <<>>

NextLoc ==
    \/ CreateLocation(ScopeLoc)
    \/ UpdateLocation(ScopeLoc)
    \/ DeleteLocation(ScopeLoc)
    \/ GetUsersByLocation(ScopeLoc)

SpecLoc == Init /\ [][NextLoc]_vars

\* The location router with its query by parent.
NextList ==
    \/ CreateLocation(ScopeLoc)
    \/ UpdateLocation(ScopeLoc)
    \/ DeleteLocation(ScopeLoc)
    \/ GetLocationsByParent(ScopeLoc)

SpecList == Init /\ [][NextList]_vars

\* Two locations and two users: every handler of the location and user
\* routers, and the venue router's query by location.
ScopePair == [locs |-> MaxPair, users |-> MaxMembers, venues |-> 0,
              codes |-> {"rw", "RW", "kgl"},
              emails |-> {"a@b.com", "A@B.com", "c@d.com"},
              roles |-> {"Admin"}, capacities |-> {1},
              routes |-> {"GET /location/:locationId"}]

NextPair ==
    \/ CreateLocation(ScopePair)
    \/ UpdateLocation(ScopePair)
    \/ DeleteLocation(ScopePair)
    \/ CreateUser(ScopePair)
    \/ UpdateUser(ScopePair)
    \/ DeleteUser(ScopePair)
    \/ GetUsersByLocation(ScopePair)
    \/ ReceiveRequest(ScopePair)
    \/ AuthenticateUser
    \/ GetVenuesByLocation

SpecPair == Init /\ [][NextPair]_vars

\* A tree of locations with venues in it: locations, a user and venues are
\* created, and venues are queried by location.
ScopeTree == [locs |-> MaxNodes, users |-> MaxStaff, venues |-> MaxHalls,
              codes |-> {"rw", "kgl", "kck"}, emails |-> {"a@b.com"},
              roles |-> {"Admin"}, capacities |-> {1},
              routes |-> {"POST /", "GET /location/:locationId"}]

NextTree ==
    \/ CreateLocation(ScopeTree)
    \/ CreateUser(ScopeTree)
    \/ ReceiveRequest(ScopeTree)
    \/ AuthenticateUser
    \/ RequireRole
    \/ CreateVenue(ScopeTree)
    \/ GetVenuesByLocation

SpecTree == Init /\ [][NextTree]_vars

\* createLocation and deleteLocation requests in flight together, their
\* storage calls interleaved.
ScopeRace == [locs |-> MaxRaceLocs, users |-> 0, venues |-> 0,
              codes |-> {"rw", "kgl"}, emails |-> {"a@b.com"},
              roles |-> Roles, capacities |-> {1}, routes |-> VenueRoutes,
              inflight |-> MaxInFlight]

NextRace ==
    \/ BeginCreateLocation(ScopeRace)
    \/ FindParent
    \/ CreateDocument(ScopeRace)
    \/ BeginDeleteLocation(ScopeRace)
    \/ CountDocuments
    \/ FindByIdAndDelete

SpecRace == Init /\ [][NextRace]_vars

\* Venue requests in flight together, their middleware steps interleaved
\* with each other and with requests on the user router.
ScopeConc == [locs |-> MaxConcLocs, users |-> MaxConcUsers,
              venues |-> MaxConcVenues,
              codes |-> {"rw"}, emails |-> {"a@b.com", "c@d.com"},
              roles |-> {"Admin", "Organizer"}, capacities |-> {1},
              routes |-> {"POST /", "PUT /:id", "DELETE /:id"},
              inflight |-> MaxWaiting]

NextConc ==
    \/ CreateLocation(ScopeConc)
    \/ CreateUser(ScopeConc)
    \/ UpdateUser(ScopeConc)
    \/ DeleteUser(ScopeConc)
    \/ ReceiveRequest(ScopeConc)
    \/ AuthenticateUser
    \/ RequireRole
    \/ CheckVenueOwnership
    \/ CreateVenue(ScopeConc)
    \/ UpdateVenue(ScopeConc)
    \/ DeleteVenue
    \/ Await(ScopeConc)
    \/ Resume

SpecConc == Init /\ [][NextConc]_vars

\* Every router, requests one at a time.
Next ==
    \/ CreateLocation(ScopeAll)
    \/ UpdateLocation(ScopeAll)
    \/ DeleteLocation(ScopeAll)
    \/ CreateUser(ScopeAll)
    \/ UpdateUser(ScopeAll)
    \/ DeleteUser(ScopeAll)
    \/ GetUsersByLocation(ScopeAll)
    \/ ReceiveRequest(ScopeAll)
    \/ AuthenticateUser
    \/ RequireRole
    \/ CheckVenueOwnership
    \/ CreateVenue(ScopeAll)
    \/ GetAllVenues
    \/ GetVenueById
    \/ GetVenuesByOrganizer
    \/ GetVenuesByLocation
    \/ UpdateVenue(ScopeAll)
    \/ DeleteVenue

Spec == Init /\ [][Next]_vars

\* ---------------------------------------------------- the Location tree
\* The ids met by following parent references from l, at most n steps.
RECURSIVE ParentChain(_, _, _)
ParentChain(store, l, n) ==
    IF n = 0 \/ l \notin DOMAIN store \/ store[l].parent = NoId THEN {}
    ELSE {store[l].parent} \cup ParentChain(store, store[l].parent, n - 1)

Ancestors(store, l) == ParentChain(store, l, Cardinality(DOMAIN store))

\* No location is its own ancestor.
Acyclic(store) == \A l \in DOMAIN store : l \notin Ancestors(store, l)

\* rootId plus every location whose parent chain reaches rootId.
Subtree(store, rootId) ==
    {rootId} \cup {l \in DOMAIN store : rootId \in Ancestors(store, l)}

\* The list holds exactly the ids of S, each once.
ListsExactly(ids, S) == Elements(ids) = S /\ Len(ids) = Cardinality(S)

\* ---------------------------------------------------------------- claims
\* C1: on an acyclic parent graph, for every location id rootId, both copies
\* of getAllChildLocationIds return a list holding exactly rootId plus every
\* location whose parent chain reaches rootId, each id once (just <<rootId>>
\* when rootId has no children); and so does the list a getUsersByLocation
\* request resolved.
C1_ResolverExact ==
    Acyclic(locs) =>
        /\ \A rootId \in 1..MaxLocs :
             LET v == getAllChildLocationIds(locs, rootId, 0)
                 u == getAllChildLocationIdsUser(locs, rootId, 0)
             IN /\ v.returns /\ ListsExactly(v.ids, Subtree(locs, rootId))
                /\ u.returns /\ ListsExactly(u.ids, Subtree(locs, rootId))
                /\ (\A l \in DOMAIN locs : locs[l].parent # rootId)
                      => v.ids = <<rootId>> /\ u.ids = <<rootId>>
        /\ res.op = "getUsersByLocation" =>
             /\ res.status = 200
             /\ ListsExactly(res.body.allLocationIds, Subtree(locs, res.id))
             /\ res.body.locationsSearched = Cardinality(Subtree(locs, res.id))

\* A getUsersByLocation request resolved a root with a child and a
\* grandchild in an acyclic tree.
C1_Witness ==
    /\ Acyclic(locs)
    /\ res.op = "getUsersByLocation" /\ res.status = 200
    /\ Len(res.body.allLocationIds) = 3
    /\ \E l \in DOMAIN locs :
         /\ locs[l].parent \in DOMAIN locs
         /\ locs[locs[l].parent].parent = res.id

\* C2: in every reachable state the Location parent graph is acyclic.
C2_AlwaysAcyclic == Acyclic(locs)

\* C8: a deleteLocation of a location that some location has as parent ends
\* with 400 and removes nothing; a deleteLocation of an existing location
\* that no location has as parent ends with 200 and removes exactly it.
C8_DeleteLocation ==
    [][res'.op = "deleteLocation" =>
         LET id == res'.id
             parentOfSome == \E c \in DOMAIN locs : locs[c].parent = id
         IN /\ parentOfSome => res'.status = 400 /\ locs' = locs
            /\ (id \in DOMAIN locs /\ ~parentOfSome) =>
                  /\ res'.status = 200
                  /\ DOMAIN locs' = DOMAIN locs \ {id}
                  /\ \A l \in DOMAIN locs' : locs'[l] = locs[l]
    ]_vars

\* A deleteLocation was refused because the location has a child.
C8_Witness ==
    /\ res.op = "deleteLocation" /\ res.status = 400
    /\ res.id \in DOMAIN locs
    /\ \E c \in DOMAIN locs : c # res.id /\ locs[c].parent = res.id

\* C9: no createLocation or updateLocation request ever produces a location
\* whose parent is itself (an update whose parent is the location's own id
\* is refused with 400).
C9_NeverOwnParent == \A l \in DOMAIN locs : locs[l].parent # l

\* What the claims about the venue router read of the request in flight.
Venue == castObjectId(req.id)
OnVenue == req.route \in {"PUT /:id", "DELETE /:id"} /\ Venue \in DOMAIN venues
OwnerOrAdmin ==
    \/ req.user.role = "Admin"
    \/ req.user.role = "Organizer" /\ venues[Venue].createdBy = req.user.id
Refused(status) == req'.status = status /\ req'.step = 0 /\ req'.sent = 1
Passed == req'.step = req.step + 1 /\ req'.sent = 0

Accepted(body) ==
    /\ Truthy(body.location) => castObjectId(body.location) \in DOMAIN locs
    /\ body.capacity # NoNum => body.capacity[2] >= 1
    /\ body.placeName # Empty

C4_CreateVenueByRole ==
    [][req.route = "POST /" =>
         /\ (At("requireRole") /\ req.user.role = "Attend")
              => Refused(403) /\ venues' = venues /\ nextVenue' = nextVenue
         /\ At("createVenue") =>
              /\ req.user.role \in {"Admin", "Organizer"}
              /\ \A body \in CreateVenueBodies(ScopeAll) :
                   (/\ CreateVenueReq(ScopeAll, body)
                    /\ Given(body.placeName)
                    /\ body.capacity # NoNum /\ body.capacity[2] >= 1
                    /\ Truthy(body.location)
                    /\ castObjectId(body.location) \in DOMAIN locs)
                   => /\ req'.status = 201
                      /\ Cardinality(DOMAIN venues') = Cardinality(DOMAIN venues) + 1
                      /\ \A v \in DOMAIN venues : /\ v \in DOMAIN venues'
                                                  /\ venues'[v] = venues[v]
    ]_vars

\* A POST / by a caller with role Attend was refused at requireRole.
C4_Witness ==
    /\ req.route = "POST /" /\ req.status = 403
    /\ req.user.role = "Attend"
    /\ req.log = <<"authenticateUser", "requireRole">>

\* C5: once authenticateUser has run on a request, if the x-user-id header
\* was absent (or no ObjectId) or no user has that id, the request has ended
\* with 401 and no other handler has run; otherwise req.user is the stored
\* user with that id and, right after authenticateUser, the next handler of
\* the chain is due and no response has been sent.
C5_AuthenticateUser ==
    Len(req.log) >= 1 =>
        /\ req.log[1] = "authenticateUser"
        /\ IF \/ req.header \in {Absent, Malformed}
              \/ castObjectId(req.header) \notin DOMAIN users
           THEN /\ req.status = 401 /\ req.sent = 1 /\ req.step = 0
                /\ req.log = <<"authenticateUser">>
                /\ req.user = NoUser
           ELSE /\ req.user = [id |-> castObjectId(req.header),
                               role |-> users[castObjectId(req.header)].role]
                /\ Len(req.log) = 1 => req.step = 2 /\ req.sent = 0

\* A request whose x-user-id names no stored user, while users exist, was
\* answered 401 by authenticateUser.
C5_Witness ==
    /\ req.log = <<"authenticateUser">> /\ req.status = 401
    /\ req.header \notin {Absent, Malformed}
    /\ castObjectId(req.header) \notin DOMAIN users
    /\ DOMAIN users # {}

\* C6: right after checkVenueOwnership has run for an authenticated caller:
\* an Admin has passed without any venue lookup (also when no venue has the
\* path id); any other caller got 404 when no venue has the path id, 403
\* when the venue exists and its createdBy is not the caller's id, and has
\* passed only when the venue's createdBy is the caller's id.
C6_OwnershipGate ==
    (Len(req.log) = 2 /\ req.log[2] = "checkVenueOwnership") =>
        IF req.user.role = "Admin"
        THEN req.step = 3 /\ req.sent = 0 /\ req.lookups = 0
        ELSE /\ req.lookups = 1
             /\ IF Venue \notin DOMAIN venues
                THEN req.status = 404 /\ req.step = 0 /\ req.sent = 1
                ELSE IF venues[Venue].createdBy # req.user.id
                THEN req.status = 403 /\ req.step = 0 /\ req.sent = 1
                ELSE req.step = 3 /\ req.sent = 0

\* An Admin has passed checkVenueOwnership for an id no venue has.
C6_Witness ==
    /\ Len(req.log) = 2 /\ req.log[2] = "checkVenueOwnership"
    /\ req.user.role = "Admin"
    /\ Venue \notin DOMAIN venues
    /\ req.step = 3

\* The handlers run so far are the first ones of the route's chain, in order.
RunInOrder ==
    /\ Len(req.log) <= Len(Chain(req.route))
    /\ \A i \in 1..Len(req.log) : req.log[i] = Chain(req.route)[i]

\* C7: a request on a venue route runs the handlers of its chain in the
\* order registered, each at most once; a handler either passes to the next
\* one or sends one response and stops the chain; and a request whose chain
\* has stopped has exactly one response.
C7_OneResponse ==
    /\ RunInOrder
    /\ req.sent <= 1
    /\ req.step > 0 => req.sent = 0 /\ req.step = Len(req.log) + 1
    /\ (req.route # "none" /\ req.step = 0) => req.sent = 1

\* The part of C7 that holds also when the resolver never returns: order,
\* at most once, at most one response, and no handler after a response.
C7_ChainOrder ==
    /\ RunInOrder
    /\ req.sent <= 1
    /\ req.step > 0 => req.sent = 0 /\ req.step = Len(req.log) + 1

\* C10: a venue that comes into being has the id of the authenticated
\* caller (req.user) as createdBy, whatever createdBy the body names, and no
\* step of any request changes the createdBy of a venue that stays.
C10_CreatedByFixed ==
    [][/\ \A v \in DOMAIN venues \cap DOMAIN venues' :
            venues'[v].createdBy = venues[v].createdBy
       /\ \A v \in DOMAIN venues' \ DOMAIN venues :
            /\ At("createVenue")
            /\ req.user.id \in DOMAIN users
            /\ venues'[v].createdBy = req.user.id
    ]_vars

\* An Admin who is not the venue's creator has updated it.
C10_Witness ==
    /\ req.route = "PUT /:id" /\ req.status = 200
    /\ Venue \in DOMAIN venues
    /\ req.user.role = "Admin"
    /\ venues[Venue].createdBy # req.user.id

\* C11: a createUser request whose location id references no stored Location
\* fails (no 201) and adds no user to the store.
C11_UserLocationChecked ==
    [][\A body \in CreateUserBodies(ScopeAll) :
         (/\ CreateUserReq(ScopeAll, body)
          /\ Truthy(body.location)
          /\ castObjectId(body.location) \notin DOMAIN locs)
            => res'.status # 201 /\ users' = users
    ]_vars

\* An updateUser body whose fields pass the schema validators.
ValidUserUpdate(body) ==
    /\ body.role # Unset => body.role \in Roles
    /\ body.email # Unset => MatchesEmail(toLowerCase(body.email))

\* An updateVenue body whose fields pass the schema validators.
ValidVenueUpdate(body) ==
    /\ body.capacity # NoNum => body.capacity[2] >= MinCapacity
    /\ body.placeName # Empty

\* C12: for updateLocation, updateUser and updateVenue, with a body that is
\* otherwise valid: when the body sets the reference field (parent,
\* location) to an id no Location has, the update ends with 404 and the
\* collection is unchanged; and when no record has the target id, the update
\* ends with 404 and every collection is unchanged.
C12_UpdateNotFound ==
    [][/\ \A id \in IdStrings(MaxSites), code \in {Unset, "rw"},
             parent \in {Absent, Null} \cup BodyIds(MaxSites) :
            (/\ UpdateLocationReq(ScopeAll, id, "Rwanda", code, parent)
             /\ ~(Truthy(parent) /\ IsOwnParent(parent, id)))
              => /\ ParentMissing(locs, parent)
                    => res'.status = 404 /\ locs' = locs
                 /\ castObjectId(id) \notin DOMAIN locs
                    => res'.status = 404 /\ UNCHANGED stores
       /\ \A id \in BodyIds(MaxUsers), body \in UpdateUserBodies(ScopeAll) :
            (UpdateUserReq(ScopeAll, id, body) /\ ValidUserUpdate(body))
              => /\ (/\ Truthy(body.location)
                     /\ castObjectId(body.location) \notin DOMAIN locs)
                    => res'.status = 404 /\ users' = users
                 /\ castObjectId(id) \notin DOMAIN users
                    => res'.status = 404 /\ UNCHANGED stores
       /\ \A body \in UpdateVenueBodies(ScopeAll) :
            (UpdateVenueReq(ScopeAll, body) /\ ValidVenueUpdate(body))
              => /\ (/\ Truthy(body.location)
                     /\ castObjectId(body.location) \notin DOMAIN locs)
                    => req'.status = 404 /\ venues' = venues
                 /\ castObjectId(req.id) \notin DOMAIN venues
                    => req'.status = 404 /\ UNCHANGED stores
    ]_vars

\* No two users hold the same lower-cased e-mail and no two locations the
\* same upper-cased code.
UniqueKeys ==
    /\ \A u, w \in DOMAIN users :
         u # w => toLowerCase(users[u].email) # toLowerCase(users[w].email)
    /\ \A l, m \in DOMAIN locs :
         l # m => toUpperCase(locs[l].code) # toUpperCase(locs[m].code)

C14_VenuesByLocation ==
    (/\ req.route = "GET /location/:locationId"
     /\ Len(req.log) = 2 /\ req.log[2] = "getVenuesByLocation")
      => LET L == castObjectId(req.id) IN
         IF L \in DOMAIN locs
         THEN Acyclic(locs) =>
                /\ req.status = 200
                /\ req.body.data =
                     {v \in DOMAIN venues : venues[v].location \in Subtree(locs, L)}
                /\ req.body.locationsSearched = Cardinality(Subtree(locs, L))
                /\ req.body.count = Cardinality(req.body.data)
         ELSE /\ req.status = 404
              /\ req.body = Message("Location not found")

\* The query on a root with a child and a grandchild found two venues, one
\* of them at the grandchild, and left out none.
C14_Witness ==
    /\ req.route = "GET /location/:locationId" /\ req.status = 200
    /\ req.body.locationsSearched = 3
    /\ req.body.count = 2
    /\ \E v \in req.body.data :
         /\ venues[v].location \in DOMAIN locs
         /\ locs[venues[v].location].parent \in DOMAIN locs
         /\ locs[locs[venues[v].location].parent].parent = castObjectId(req.id)

\* C15: getAllVenues returns, to a caller with role Organizer, exactly the
\* venues whose createdBy is the caller's id, and to a caller with role Admin
\* or Attend every stored venue.
C15_GetAllVenues ==
    (/\ req.route = "GET /"
     /\ Len(req.log) = 2 /\ req.log[2] = "getAllVenues")
      => /\ req.status = 200
         /\ req.user.role \in Roles
         /\ req.user.role = "Organizer" =>
              req.body.data =
                {v \in DOMAIN venues : venues[v].createdBy = req.user.id}
         /\ req.user.role \in {"Admin", "Attend"} =>
              req.body.data = DOMAIN venues
         /\ req.body.count = Cardinality(req.body.data)

\* An Organizer listed the venues while the only stored venue was created by
\* somebody else, and got none.
C15_Witness ==
    /\ req.route = "GET /" /\ req.status = 200
    /\ req.user.role = "Organizer"
    /\ DOMAIN venues # {}
    /\ \A v \in DOMAIN venues : venues[v].createdBy # req.user.id
    /\ req.body.data = {}

\* C16: with requests handled one at a time, right after a createVenue that
\* ends with 201 the new venue's location is a stored Location and its
\* createdBy a stored User; right after an updateVenue that ends with 200
\* and whose body sent a location, the venue's location is a stored Location.
C16_VenueReferences ==
    [][/\ (At("createVenue") /\ req'.status = 201) =>
            \A v \in DOMAIN venues' \ DOMAIN venues :
               /\ venues'[v].location \in DOMAIN locs'
               /\ venues'[v].createdBy \in DOMAIN users'
       /\ (At("updateVenue") /\ req'.status = 200) =>
            \A body \in UpdateVenueBodies(ScopeAll) :
               (UpdateVenueReq(ScopeAll, body) /\ Truthy(body.location))
                 => /\ venues'[Venue].location = castObjectId(body.location)
                    /\ venues'[Venue].location \in DOMAIN locs'
    ]_vars

\* A venue has just been created, at a stored location and by a stored user.
C16_Witness ==
    /\ req.route = "POST /" /\ req.status = 201
    /\ \E v \in req.body.data :
         /\ v \in DOMAIN venues
         /\ venues[v].location \in DOMAIN locs
         /\ venues[v].createdBy = req.user.id
         /\ req.user.id \in DOMAIN users

C18_DeleteLeavesReferences ==
    [][/\ (/\ res'.op = "deleteLocation"
           /\ res'.id \in DOMAIN locs
           /\ \A c \in DOMAIN locs : locs[c].parent # res'.id)
            => /\ res'.status = 200
               /\ DOMAIN locs' = DOMAIN locs \ {res'.id}
               /\ users' = users /\ venues' = venues
       /\ (res'.op = "deleteUser" /\ res'.id \in DOMAIN users)
            => /\ res'.status = 200
               /\ DOMAIN users' = DOMAIN users \ {res'.id}
               /\ \A u \in DOMAIN users' : users'[u] = users[u]
               /\ venues' = venues /\ locs' = locs
    ]_vars

\* A location was deleted while a user and a venue are located at it.
C18_Witness ==
    /\ res.op = "deleteLocation" /\ res.status = 200
    /\ res.id \notin DOMAIN locs
    /\ \E u \in DOMAIN users : users[u].location = res.id
    /\ \E v \in DOMAIN venues : venues[v].location = res.id

\* C19: on an acyclic parent graph, for every location id rootId, both copies
\* of getAllChildLocationIds terminate, and each issues exactly one children
\* query (Location.find({ parent: x })) for each location x of the resolved
\* subtree: as many queries as the returned list is long.
C19_OneQueryPerLocation ==
    Acyclic(locs) =>
        \A rootId \in 1..MaxLocs :
           LET v == getAllChildLocationIds(locs, rootId, 0)
               u == getAllChildLocationIdsUser(locs, rootId, 0)
           IN /\ v.returns
              /\ ListsExactly(v.queries, Subtree(locs, rootId))
              /\ Len(v.queries) = Len(v.ids)
              /\ u.returns
              /\ ListsExactly(u.queries, Subtree(locs, rootId))
              /\ Len(u.queries) = Len(u.ids)

\* A getUsersByLocation request resolved a root with two direct children.
C19_Witness ==
    /\ Acyclic(locs)
    /\ res.op = "getUsersByLocation" /\ res.status = 200
    /\ Len(res.body.allLocationIds) = 3
    /\ Cardinality(ChildrenOf(locs, res.id)) = 2
    /\ Len(getAllChildLocationIdsUser(locs, res.id, 0).queries) = 3

\* Following the child relation (parent = x) from rootId meets a location
\* that is its own ancestor.
CycleBelow(store, rootId) ==
    \E x \in Subtree(store, rootId) \cap DOMAIN store : x \in Ancestors(store, x)

\* C20: when the locations reached from rootId along the child relation
\* include a cycle, neither copy of getAllChildLocationIds returns, and a
\* getUsersByLocation or getVenuesByLocation request for such a stored
\* location gets no response (so no success response).
C20_CycleNeverReturns ==
    /\ \A rootId \in 1..MaxPair :
         CycleBelow(locs, rootId) =>
            /\ ~getAllChildLocationIds(locs, rootId, 0).returns
            /\ ~getAllChildLocationIdsUser(locs, rootId, 0).returns
    /\ (res.op = "getUsersByLocation" /\ CycleBelow(locs, res.id))
         => res.status = 0
    /\ (/\ req.route = "GET /location/:locationId"
        /\ Len(req.log) = 2 /\ req.log[2] = "getVenuesByLocation"
        /\ castObjectId(req.id) \in DOMAIN locs
        /\ CycleBelow(locs, castObjectId(req.id)))
         => req.status # 200 /\ req.sent = 0

\* A is the parent of B and B the parent of A (createLocation A,
\* createLocation B with parent A, updateLocation A with parent B), and a
\* getVenuesByLocation request for one of them has run without a response.
C20_Witness ==
    /\ DOMAIN locs = {1, 2}
    /\ locs[1].parent = 2 /\ locs[2].parent = 1
    /\ req.route = "GET /location/:locationId"
    /\ Len(req.log) = 2 /\ req.log[2] = "getVenuesByLocation"
    /\ req.sent = 0 /\ req.step = 0

\* Some stored location has a non-null parent that no stored location has.
Dangling(store) ==
    \E l \in DOMAIN store :
       store[l].parent # NoId /\ store[l].parent \notin DOMAIN store

\* C21: with the storage calls of concurrent requests interleaved, a stored
\* location comes to have a parent that references no location: a
\* deleteLocation(P) that has counted zero children removes P after a
\* createLocation(parent = P) found P and created the child.  A parent comes
\* to reference nothing only through such a stale check: by that second
\* call of deleteLocation, or by the Location.create of a createLocation
\* whose parent was deleted after its findById.
C21_DanglingByRace ==
    [][(~Dangling(locs) /\ Dangling(locs')) =>
         \E i \in DOMAIN pending :
            \/ LET P == castObjectId(pending[i].id) IN
               /\ pending[i].op = "deleteLocation"
               /\ pending[i].awaits = "findByIdAndDelete"
               /\ pending[i].seen = 0
               /\ P \in DOMAIN locs /\ P \notin DOMAIN locs'
               /\ \E c \in DOMAIN locs : locs[c].parent = P
               /\ res'.op = "deleteLocation" /\ res'.status = 200
            \/ /\ pending[i].op = "createLocation"
               /\ pending[i].awaits = "create"
               /\ pending[i].seen = castObjectId(pending[i].parent)
               /\ pending[i].seen \notin DOMAIN locs
               /\ res'.op = "createLocation" /\ res'.status = 201
    ]_vars

\* A deleteLocation has ended with 200 and left a stored location whose
\* parent is the location deleted.
C21_Witness ==
    /\ res.op = "deleteLocation" /\ res.status = 200
    /\ res.id \notin DOMAIN locs
    /\ \E c \in DOMAIN locs : locs[c].parent = res.id

\* C22: under every interleaving of the requests in flight, an updateVenue
\* or deleteVenue step that is applied to a venue (it ends with 200) belongs
\* to a request whose caller, as authenticateUser read it, has the id that is
\* the venue's createdBy or had the role Admin.
C22_AppliedForOwnerOrAdmin ==
    [][((At("updateVenue") \/ At("deleteVenue")) /\ req'.status = 200) =>
         /\ Venue \in DOMAIN venues
         /\ \/ req.user.role = "Admin"
            \/ venues[Venue].createdBy = req.user.id
    ]_vars

\* An update was applied for a caller who was an Admin when authenticateUser
\* read the user, who is an Organizer by now and did not create the venue:
\* an updateUser ran between the request's steps.
C22_Witness ==
    /\ req.route = "PUT /:id" /\ req.status = 200
    /\ Venue \in DOMAIN venues
    /\ req.user.role = "Admin"
    /\ req.user.id \in DOMAIN users
    /\ users[req.user.id].role = "Organizer"
    /\ venues[Venue].createdBy # req.user.id

\* C23: a PUT /:id or DELETE /:id request whose caller had the role Attend
\* when authenticateUser read the user (also a caller who created the venue
\* and whose role updateUser changed afterwards) never gets past
\* checkVenueOwnership, never ends with 200 and leaves the venues as they
\* were.
C23_AttendRejected ==
    [][(/\ req.route \in {"PUT /:id", "DELETE /:id"}
        /\ req.user.role = "Attend"
        /\ At("checkVenueOwnership") \/ At("updateVenue") \/ At("deleteVenue"))
          => /\ req'.status # 200
             /\ ~Passed
             /\ venues' = venues
    ]_vars

\* C24: with each request handled as a whole, in every state reached from
\* the empty store by createLocation, updateLocation and deleteLocation
\* (and the read-only getUsersByLocation), no location has a parent that
\* references no stored location: every parent is null or the id of a
\* location that exists.
C24_ParentsExist == ~Dangling(locs)

\* A deleteLocation has removed a location while some location still has a
\* parent, and that parent exists.
C24_Witness ==
    /\ res.op = "deleteLocation" /\ res.status = 200
    /\ res.id \notin DOMAIN locs
    /\ \E l \in DOMAIN locs :
          locs[l].parent # NoId /\ locs[l].parent \in DOMAIN locs

\* The statuses of a refused request, and the three collections.
Failure == {400, 401, 403, 404}
Data == <<locs, users, venues>>
ReadRoutes == {"GET /", "GET /organizer/:organizerId",
               "GET /location/:locationId", "GET /:id"}

\* C25: a request that ends with 400, 401, 403 or 404, whichever handler
\* refuses it, leaves the Location, User and Venue collections as they
\* were, and so does every list or get request, the descendant resolver
\* included.  Step by step: a location or user handler that answers with a
\* failure status, and getUsersByLocation always, change nothing; on the
\* venue router authenticateUser, requireRole and checkVenueOwnership
\* change nothing, a controller that answers with a failure status changes
\* nothing, nothing is changed for a request once it has been answered with
\* a failure status, and no handler of a GET route changes anything.
C25_RefusedAndReadsChangeNothing ==
    [][/\ (Idle /\ req' = NoRequest /\ res'.status \in Failure) => Data' = Data
       /\ (Idle /\ req' = NoRequest /\ res'.op = "getUsersByLocation")
            => Data' = Data
       /\ (At("authenticateUser") \/ At("requireRole")
             \/ At("checkVenueOwnership")) => Data' = Data
       /\ (req.step > 0 /\ (req'.status \in Failure \/ req.status \in Failure))
            => Data' = Data
       /\ (req.step > 0 /\ req.route \in ReadRoutes) => Data' = Data
    ]_vars

\* updateVenue has refused the update of an existing venue with 400, with
\* all three collections non-empty.
C25_Witness ==
    /\ req.route = "PUT /:id" /\ req.status = 400 /\ req.step = 0
    /\ Len(req.log) = 3 /\ req.log[3] = "updateVenue"
    /\ Venue \in DOMAIN venues
    /\ DOMAIN locs # {} /\ DOMAIN users # {}

\* C26: the two copies of getAllChildLocationIds agree.  Against the same
\* Location collection and for the same root id (of a stored location or
\* not), the copy of the venue controller and the copy of the user
\* controller both return or both never return, return the same list of
\* ids in the same order, and pass the same ids to Location.find in the
\* same order.
C26_CopiesAgree ==
    \A rootId \in 1..MaxLocs :
       LET venueCopy == getAllChildLocationIds(locs, rootId, 0)
           userCopy == getAllChildLocationIdsUser(locs, rootId, 0)
       IN /\ venueCopy.returns = userCopy.returns
          /\ venueCopy.ids = userCopy.ids
          /\ venueCopy.queries = userCopy.queries

\* getUsersByLocation has answered with the list its copy returned for a
\* root with a child and a grandchild or two children, and the venue copy
\* returns that list for the same root.
C26_Witness ==
    /\ res.op = "getUsersByLocation" /\ res.status = 200
    /\ Len(res.body.allLocationIds) = 3
    /\ getAllChildLocationIds(locs, res.id, 0).ids = res.body.allLocationIds
    /\ Len(getAllChildLocationIds(locs, res.id, 0).queries) = 3

C28_LocationsByParent ==
    [][(Idle /\ req' = NoRequest /\ res'.op = "getLocationsByParent") =>
         \A p \in RootWords \cup IdStrings(MaxLocs) :
            GetLocationsByParentReq(ScopeLoc, p) =>
              /\ res'.status = 200
              /\ res'.body.count = Cardinality(res'.body.data)
              /\ p \in RootWords =>
                   res'.body.data = {l \in DOMAIN locs : locs[l].parent = NoId}
              /\ p \notin RootWords =>
                   /\ res'.body.data = {l \in DOMAIN locs : locs[l].parent = p[1]}
                   /\ (p[1] \notin DOMAIN locs
                         \/ \A l \in DOMAIN locs : locs[l].parent # p[1])
                        => res'.body.data = {} /\ res'.body.count = 0
    ]_vars

\* getLocationsByParent has listed the two children of a stored location.
C28_Witness ==
    /\ res.op = "getLocationsByParent" /\ res.status = 200
    /\ res.id \in DOMAIN locs
    /\ res.body.count = 2
    /\ \A l \in res.body.data : l \in DOMAIN locs /\ locs[l].parent = res.id

====
